---- MODULE Spec2Model ----
(***************************************************************************)
(* Truck location pipeline of function_app.py: upload_truck_data stores a  *)
(* location row, the SQL change trigger hands batches of changes to        *)
(* calculate_truck_data, which posts one comparison per (inserted row,     *)
(* warehouse) to compare_locations, which computes the haversine distance  *)
(* and appends a MessageQueue row when the distance is <= 0.5 km.          *)
(*                                                                         *)
(* Python floats are modelled as fixed-point integers:                     *)
(*   coordinates  in 1e-4 degree                                           *)
(*   angles       in 1e-6 radian            (Micro)                        *)
(*   sin, sqrt(a) in 1e-6,  a in 1e-12,  cos in 1e-3 (Milli)               *)
(*   distances    in 1e-2 km                (the two decimals of the log)  *)
(* Every rounding is to nearest, ties away from zero, hence symmetric in   *)
(* the sign like the IEEE operations it stands for.  Inputs stay within    *)
(* about 0.1 degree of each other so that every product fits TLC's 32-bit  *)
(* integers.  At this resolution a distance is within about 2% of the      *)
(* float result (0.0044 degree of latitude: 0.50 km here, 0.489 km in      *)
(* floats).                                                                *)
(***************************************************************************)
EXTENDS Integers, Sequences, FiniteSets, TLC

VARIABLES
    env_set,         \* os.environ holds "OdbcSqlConnectionString"
    Warehouses,      \* table Warehouses (reference data, read only)
    TruckLocations,  \* table TruckLocations
    MessageQueue,    \* table MessageQueue
    changes,         \* change feed of TruckLocations not yet delivered
    invs,            \* calculate_truck_data invocations, in start order
    last,            \* the HTTP exchange the last step served, if it served one
    hist,            \* history: counters and what went wrong so far
    hav              \* haversine applied to a pair of points

vars == <<env_set, Warehouses, TruckLocations, MessageQueue, changes, invs,
          last, hist, hav>>

-----------------------------------------------------------------------------
(* Fixed-point arithmetic standing for Python's float operations.          *)

Micro == 10^6
Milli == 10^3

Abs(x) == IF x < 0 THEN -x ELSE x
Sgn(x) == IF x < 0 THEN -1 ELSE 1

\* n / d rounded to nearest, ties away from zero (d > 0)
RoundDiv(n, d) == Sgn(n) * ((2 * Abs(n) + d) \div (2 * d))

\* math.radians: 1e-4 degree -> 1e-6 radian (pi/180 = 0.01745...)
Radians(x) == RoundDiv(x * 1745, 1000)

\* math.sin on an angle in 1e-6 rad, result in 1e-6: x - x^3/3! + x^5/5!
Sin(x) ==
    LET x2 == RoundDiv(x * x, Micro)
        x3 == RoundDiv(x2 * x, Micro)
        x5 == RoundDiv(x3 * x2, Micro)
    IN  x - RoundDiv(x3, 6) + RoundDiv(x5, 120)

\* math.cos on an angle in 1e-6 rad, result in 1e-3:
\* 1 - m^2/2! + m^4/4! - m^6/6! + m^8/8!
Cos(x) ==
    LET m  == RoundDiv(x, 1000)
        m2 == RoundDiv(m * m, Milli)
        m4 == RoundDiv(m2 * m2, Milli)
        m6 == RoundDiv(m4 * m2, Milli)
        m8 == RoundDiv(m4 * m4, Milli)
    IN  Milli - RoundDiv(m2, 2) + RoundDiv(m4, 24) - RoundDiv(m6, 720)
            + RoundDiv(m8, 40320)

RECURSIVE IsqrtBetween(_, _, _)
IsqrtBetween(n, lo, hi) ==
    IF lo >= hi THEN lo
    ELSE LET mid == (lo + hi + 1) \div 2
         IN  IF mid * mid <= n THEN IsqrtBetween(n, mid, hi)
                               ELSE IsqrtBetween(n, lo, mid - 1)

\* math.sqrt to nearest: the integer r with (r - 1/2)^2 <= n < (r + 1/2)^2
Sqrt(n) ==
    LET Nearest(r) == IF n - r * r > r THEN r + 1 ELSE r
    IN  Nearest(IsqrtBetween(n, 0, 46339))

\* math.atan2(y, x) for x > 0; y in 1e-6, x in 1e-4, result in 1e-6 rad:
\* with t = y/x, t - t^3/3 + t^5/5
Atan2(y, x) ==
    LET t  == RoundDiv(y * 10^4, x)
        t2 == RoundDiv(t * t, Micro)
        t3 == RoundDiv(t2 * t, Micro)
        t5 == RoundDiv(t3 * t2, Micro)
    IN  t - RoundDiv(t3, 3) + RoundDiv(t5, 5)

-----------------------------------------------------------------------------
(* haversine(lat1, lon1, lat2, lon2): coordinates in 1e-4 degree, result   *)
(* in 1e-2 km.                                                             *)

R == 6371

HaversineCosLat1Twice(lat1, lon1, lat2, lon2) ==
    LET dlat == Radians(lat2 - lat1)
        dlon == Radians(lon2 - lon1)
        sdlat == Sin(RoundDiv(dlat, 2))
        sdlon == Sin(RoundDiv(dlon, 2))
        a == sdlat * sdlat
             + RoundDiv(RoundDiv(Cos(Radians(lat1)) * Cos(Radians(lat1)), Milli)
                            * (sdlon * sdlon), Milli)
        c == 2 * Atan2(Sqrt(a), Sqrt(10^8 - RoundDiv(a, 10^4)))
    IN  RoundDiv(R * c, 10^4)

Haversine(lat1, lon1, lat2, lon2) ==
    LET dlat == Radians(lat2 - lat1)
        dlon == Radians(lon2 - lon1)
        sdlat == Sin(RoundDiv(dlat, 2))
        sdlon == Sin(RoundDiv(dlon, 2))
        \* a in 1e-12; cos*cos in 1e-3
        a == sdlat * sdlat
             + RoundDiv(RoundDiv(Cos(Radians(lat1)) * Cos(Radians(lat2)), Milli)
                            * (sdlon * sdlon), Milli)
        \* sqrt(a) in 1e-6; 1 - a in 1e-8, its root in 1e-4
        c == 2 * Atan2(Sqrt(a), Sqrt(10^8 - RoundDiv(a, 10^4)))
    IN  RoundDiv(R * c, 10^4)

-----------------------------------------------------------------------------
(* JSON values of a request body and Python's conversions of them.         *)

Absent == [t |-> "absent", n |-> 0, s |-> ""]   \* key not in the body
Null   == [t |-> "null",   n |-> 0, s |-> ""]   \* JSON null
Num(n) == [t |-> "num",    n |-> n, s |-> ""]
Str(s) == [t |-> "str",    n |-> 0, s |-> s]
Half   == [t |-> "half",   n |-> 0, s |-> ""]   \* the JSON number 0.5

\* req_body.get(key): None for a missing key and for null
IsNone(v) == v.t \in {"absent", "null"}

Ok(n)    == [err |-> "", v |-> n]
Raise(e) == [err |-> e,  v |-> 0]

\* int(x): TypeError on None, ValueError on a string that is no numeral (no
\* string of the model is one), the number truncated toward zero otherwise
IntOf(v) ==
    IF IsNone(v) THEN Raise("TypeError")
    ELSE IF v.t = "str" THEN Raise("ValueError")
    ELSE Ok(v.n)

\* float(x): the same cases, and no truncation: 0.5 degree is 5000
FloatOf(v) == IF v.t = "half" THEN Ok(5000) ELSE IntOf(v)

\* the strings of the model that are ISO 8601 date-times
IsoStrings == {"2024-11-18T10:00:00", "2024-11-18T11:00:00"}

\* datetime.fromisoformat(x): TypeError unless x is a string, ValueError on
\* a string that is no ISO 8601 date-time
FromIsoformat(v) ==
    IF v.t # "str" THEN Raise("TypeError")
    ELSE IF v.s \in IsoStrings THEN Ok(0) ELSE Raise("ValueError")

\* bool(x) of a parsed number, and of what req_body.get returned
TruthyNum(n) == n # 0
TruthyValue(v) ==
    CASE IsNone(v)   -> FALSE
      [] v.t = "str" -> v.s # ""
      [] OTHER       -> v.n # 0

\* os.environ["OdbcSqlConnectionString"]: KeyError when the setting is absent
GetSqlConnectionString(env) == IF env THEN Ok(0) ELSE Raise("KeyError")

-----------------------------------------------------------------------------
(* upload_truck_data                                                       *)

Reply(status, msg, truck_id, warehouse_id, raised) ==
    [status |-> status, msg |-> msg, truck_id |-> truck_id,
     warehouse_id |-> warehouse_id, raised |-> raised]

\* lines 77-92: the parse step; err is the first exception raised
ParseUploadNoTimestampCheck(req) ==
    LET tid == IntOf(req.truck_id)
        lat == FloatOf(req.latitude)
        lon == FloatOf(req.longitude)
        err == CASE ~req.json    -> "ValueError"
                 [] tid.err # "" -> tid.err
                 [] lat.err # "" -> lat.err
                 [] lon.err # "" -> lon.err
                 [] OTHER        -> ""
    IN  [err |-> err, truck_id |-> tid.v, latitude |-> lat.v,
         longitude |-> lon.v, timestamp |-> req.timestamp]

ParseUploadDefaultsToZero(req) ==
    LET Default(v) == IF v.t = "absent" THEN Num(0) ELSE v
        tid == IntOf(Default(req.truck_id))
        lat == FloatOf(Default(req.latitude))
        lon == FloatOf(Default(req.longitude))
        iso == FromIsoformat(req.timestamp)
        err == CASE ~req.json    -> "ValueError"
                 [] tid.err # "" -> tid.err
                 [] lat.err # "" -> lat.err
                 [] lon.err # "" -> lon.err
                 [] iso.err # "" -> iso.err
                 [] OTHER        -> ""
    IN  [err |-> err, truck_id |-> tid.v, latitude |-> lat.v,
         longitude |-> lon.v, timestamp |-> req.timestamp]

ParseUpload(req) ==
    LET tid == IntOf(req.truck_id)
        lat == FloatOf(req.latitude)
        lon == FloatOf(req.longitude)
        iso == FromIsoformat(req.timestamp)
        err == CASE ~req.json    -> "ValueError"
                 [] tid.err # "" -> tid.err
                 [] lat.err # "" -> lat.err
                 [] lon.err # "" -> lon.err
                 [] iso.err # "" -> iso.err
                 [] OTHER        -> ""
    IN  [err |-> err, truck_id |-> tid.v, latitude |-> lat.v,
         longitude |-> lon.v, timestamp |-> req.timestamp]

\* line 95: all([truck_id, latitude, longitude, timestamp])
AllProvidedIsNotNone(p) == ~IsNone(p.timestamp)

AllProvided(p) ==
    /\ TruthyNum(p.truck_id)
    /\ TruthyNum(p.latitude)
    /\ TruthyNum(p.longitude)
    /\ TruthyValue(p.timestamp)

LocationRow(p) ==
    [TruckID |-> p.truck_id, Latitude |-> p.latitude,
     Longitude |-> p.longitude, Timestamp |-> p.timestamp.s]

\* lines 102-123: connect, INSERT, commit; db = "error" is a pyodbc.Error
\* raised before the commit
StoreLocationCommitsThenFails(p, db) ==
    [reply    |-> IF db = "ok"
                  THEN Reply(200, "Data for TruckID {truck_id} inserted successfully.", p.truck_id, 0, "")
                  ELSE Reply(500, "Database error occurred. Please try again later.", 0, 0, ""),
     rows     |-> <<LocationRow(p)>>,
     connects |-> 1]

StoreLocation(p, db) ==
    IF db = "ok"
    THEN [reply    |-> Reply(200, "Data for TruckID {truck_id} inserted successfully.", p.truck_id, 0, ""),
          rows     |-> <<LocationRow(p)>>,
          connects |-> 1]
    ELSE [reply    |-> Reply(500, "Database error occurred. Please try again later.", 0, 0, ""),
          rows     |-> <<>>,
          connects |-> 1]

\* the whole handler: what it answers, the rows it inserts, the connections
\* it opens.  An exception that leaves the handler is answered 500 by the
\* Functions host.
UploadOutcome(req, env, db) ==
    LET cs == GetSqlConnectionString(env)
        p  == ParseUpload(req)
    IN  CASE cs.err # "" ->
               [reply |-> Reply(500, "", 0, 0, cs.err), rows |-> <<>>, connects |-> 0]
          [] p.err # "" ->
               [reply |-> Reply(400, "Invalid data format. Please check your input.", 0, 0, ""),
                rows |-> <<>>, connects |-> 0]
          [] ~AllProvided(p) ->
               [reply |-> Reply(400, "Missing one or more required parameters.", 0, 0, ""),
                rows |-> <<>>, connects |-> 0]
          [] OTHER -> StoreLocation(p, db)

-----------------------------------------------------------------------------
(* insert_message_queue and compare_locations                              *)

Threshold == 50

\* line 339: distance <= 0.5
WithinThresholdStrict(distance) == distance < Threshold

WithinThreshold(distance) == distance <= Threshold

AlertRow(truck_id, warehouse_id, distance) ==
    [TruckID |-> truck_id, WarehouseID |-> warehouse_id, Distance |-> distance]

\* lines 283-300.  The connection string is read inside the try, whose only
\* handler is for pyodbc.Error: a KeyError leaves the function, a
\* pyodbc.Error (db = "error") is logged and swallowed.
InsertMessageQueue(truck_id, warehouse_id, distance, env, db) ==
    LET cs == GetSqlConnectionString(env)
    IN  CASE cs.err # "" ->
               [raised |-> cs.err, rows |-> <<>>, log |-> "raised", connects |-> 0]
          [] db # "ok" ->
               [raised |-> "", rows |-> <<>>, log |-> "error", connects |-> 1]
          [] OTHER ->
               [raised |-> "", rows |-> <<AlertRow(truck_id, warehouse_id, distance)>>,
                log |-> "ok", connects |-> 1]

\* lines 319-327: the six fields; err is the first exception raised
ParseCompare(req) ==
    LET tid  == IntOf(req.truck_id)
        wid  == IntOf(req.warehouse_id)
        tlat == FloatOf(req.truck_latitude)
        tlon == FloatOf(req.truck_longitude)
        wlat == FloatOf(req.warehouse_latitude)
        wlon == FloatOf(req.warehouse_longitude)
        err == CASE ~req.json     -> "ValueError"
                 [] tid.err # ""  -> tid.err
                 [] wid.err # ""  -> wid.err
                 [] tlat.err # "" -> tlat.err
                 [] tlon.err # "" -> tlon.err
                 [] wlat.err # "" -> wlat.err
                 [] wlon.err # "" -> wlon.err
                 [] OTHER         -> ""
    IN  [err |-> err, truck_id |-> tid.v, warehouse_id |-> wid.v,
         truck_latitude |-> tlat.v, truck_longitude |-> tlon.v,
         warehouse_latitude |-> wlat.v, warehouse_longitude |-> wlon.v]

\* lines 317-364: the reply, the MessageQueue rows inserted, and what the
\* alert write logged ("none" when it was not attempted)
CompareOutcome(req, env, db) ==
    LET p == ParseCompare(req)
        done == Reply(200, "Comparison for truck {truck_id} and warehouse {warehouse_id} successful.",
                      p.truck_id, p.warehouse_id, "")
        \* lines 339-349, the distance computed
        Decide(distance) ==
            LET w == InsertMessageQueue(p.truck_id, p.warehouse_id, distance, env, db)
            IN  CASE ~WithinThreshold(distance) ->
                       [reply |-> done, rows |-> <<>>, alert |-> "none", connects |-> 0]
                  [] w.raised # "" ->
                       [reply |-> Reply(500, "An error occurred while processing the request. Please try again later.",
                                        0, 0, ""),
                        rows |-> <<>>, alert |-> w.log, connects |-> w.connects]
                  [] OTHER ->
                       [reply |-> done, rows |-> w.rows, alert |-> w.log,
                        connects |-> w.connects]
    IN  IF p.err # ""
        THEN [reply |-> Reply(400, "Invalid data format. Please check your input.", 0, 0, ""),
              rows |-> <<>>, alert |-> "none", connects |-> 0]
        ELSE Decide(Haversine(p.truck_latitude, p.truck_longitude,
                              p.warehouse_latitude, p.warehouse_longitude))

-----------------------------------------------------------------------------
(* fetch_warehouses, compare_truck_warehouse_location, calculate_truck_data *)

\* lines 172-189: the rows of Warehouses; [] on a pyodbc.Error; a KeyError
\* from the connection string leaves the function
FetchWarehouses(table, env, db) ==
    LET cs == GetSqlConnectionString(env)
    IN  CASE cs.err # "" -> [raised |-> cs.err, rows |-> <<>>]
          [] db # "ok"   -> [raised |-> "", rows |-> <<>>]
          [] OTHER       -> [raised |-> "", rows |-> table]

\* lines 218-235: the payload of one comparison
Payload(truck, warehouse) ==
    [json |-> TRUE,
     truck_id |-> Num(truck.Item.TruckID),
     warehouse_id |-> Num(warehouse.WarehouseID),
     truck_latitude |-> Num(truck.Item.Latitude),
     truck_longitude |-> Num(truck.Item.Longitude),
     warehouse_latitude |-> Num(warehouse.Latitude),
     warehouse_longitude |-> Num(warehouse.Longitude)]

\* lines 214-216: the loops' position <<i, j>> is the next pair to compare,
\* event i of the batch with warehouse j; events that are no INSERT and the
\* end of the warehouse list are stepped over; i = Len(batch) + 1 at the end
RECURSIVE PositionAnyOperation(_, _, _, _)
PositionAnyOperation(batch, warehouses, i, j) ==
    IF i > Len(batch) THEN <<Len(batch) + 1, 1>>
    ELSE IF j <= Len(warehouses) THEN <<i, j>>
    ELSE PositionAnyOperation(batch, warehouses, i + 1, 1)

RECURSIVE Position(_, _, _, _)
Position(batch, warehouses, i, j) ==
    IF i > Len(batch) THEN <<Len(batch) + 1, 1>>
    ELSE IF batch[i].Operation = 0 /\ j <= Len(warehouses) THEN <<i, j>>
    ELSE Position(batch, warehouses, i + 1, 1)

\* lines 146-155 and 214-238: after a comparison call that logged `logged`
\* ("info" or "error") the loop goes on with the next pair
AfterCallBreaks(inv, logged) ==
    LET next == Position(inv.batch, inv.warehouses, inv.i + 1, 1)
    IN  [inv EXCEPT !.i = next[1], !.j = next[2],
                    !.calls = Append(inv.calls, Payload(inv.batch[inv.i], inv.warehouses[inv.j])),
                    !.log = logged,
                    !.errors = IF logged = "error" THEN inv.errors + 1 ELSE inv.errors,
                    !.status = IF next[1] > Len(inv.batch) THEN "done" ELSE "running"]

AfterCallAbortsOnFailure(inv, logged) ==
    LET next == Position(inv.batch, inv.warehouses, inv.i, inv.j + 1)
        ok == logged = "info"
    IN  [inv EXCEPT !.i = next[1], !.j = next[2],
                    !.calls = Append(inv.calls, Payload(inv.batch[inv.i], inv.warehouses[inv.j])),
                    !.log = logged,
                    !.errors = IF logged = "error" THEN inv.errors + 1 ELSE inv.errors,
                    !.status = IF ~ok THEN "raised"
                               ELSE IF next[1] > Len(inv.batch) THEN "done" ELSE "running"]

AfterCall(inv, logged) ==
    LET next == Position(inv.batch, inv.warehouses, inv.i, inv.j + 1)
    IN  [inv EXCEPT !.i = next[1], !.j = next[2],
                    !.calls = Append(inv.calls, Payload(inv.batch[inv.i], inv.warehouses[inv.j])),
                    !.log = logged,
                    !.errors = IF logged = "error" THEN inv.errors + 1 ELSE inv.errors,
                    !.status = IF next[1] > Len(inv.batch) THEN "done" ELSE "running"]

\* lines 206-216: a new invocation on `batch`, up to its first comparison
StartInvocation(batch, table, env, db) ==
    LET f == FetchWarehouses(table, env, db)
        first == Position(batch, f.rows, 1, 1)
    IN  [batch |-> batch, warehouses |-> f.rows, fetch |-> IF f.raised # "" THEN "raised" ELSE db,
         i |-> first[1], j |-> first[2], calls |-> <<>>, log |-> "none", errors |-> 0,
         status |-> IF f.raised # "" THEN "raised"
                    ELSE IF first[1] > Len(batch) THEN "done" ELSE "running"]

-----------------------------------------------------------------------------
(* Bounds and the inputs of the model.                                     *)

MaxClientOps == 2     \* requests of clients, and changes they make to TruckLocations
MaxInvocations == 2   \* calculate_truck_data invocations
MaxBatch == 2         \* changes in one batch

\* the warehouse of the simulation script, in 1e-4 degree
BaseLat == 538067
BaseLon == -15559

WarehouseRow(id, name, lat, lon) ==
    [WarehouseID |-> id, Name |-> name, Latitude |-> lat, Longitude |-> lon]

\* two warehouses 0.68 km apart (distances as Haversine below computes
\* them), or none
WarehouseTables ==
    { <<>>,
      << WarehouseRow(1, "Leeds", BaseLat, BaseLon),
         WarehouseRow(2, "North", BaseLat + 60, BaseLon) >> }

IsoNow == "2024-11-18T10:00:00"
IsoLater == "2024-11-18T11:00:00"

NotJson(fields) == [f \in fields |-> Absent] @@ [json |-> FALSE]

UploadFields == {"truck_id", "latitude", "longitude", "timestamp"}

\* The reference request: truck 1, 0.50 km north of the first warehouse and
\* 0.18 km south of the second.
\* The other requests change one field of it: to a missing, null, unparsable
\* or zero value, to a truck_id of 0.5, or to a place 1.34 km north; or they pair a zero field with
\* a missing or empty timestamp.
UploadReference ==
    [json |-> TRUE, truck_id |-> Num(1), latitude |-> Num(BaseLat + 44),
     longitude |-> Num(BaseLon), timestamp |-> Str(IsoNow)]

UploadRequests ==
    { NotJson(UploadFields), UploadReference } \cup
    { [UploadReference EXCEPT !.truck_id = v] :
          v \in {Absent, Null, Str("abc"), Num(0), Half} } \cup
    { [UploadReference EXCEPT !.latitude = v] :
          v \in {Absent, Num(0), Num(BaseLat + 120)} } \cup
    { [UploadReference EXCEPT !.longitude = v] :
          v \in {Absent, Num(0)} } \cup
    { [UploadReference EXCEPT !.timestamp = v] :
          v \in {Absent, Null, Str(""), Str("not-a-date")} } \cup
    { [UploadReference EXCEPT !.latitude = Num(0), !.timestamp = Absent],
      [UploadReference EXCEPT !.truck_id = Num(0), !.timestamp = Str("")] }

CompareFields == {"truck_id", "warehouse_id", "truck_latitude", "truck_longitude",
                  "warehouse_latitude", "warehouse_longitude"}

\* 0.41, 0.50, 0.51 and 0.60 km north of the warehouse
DirectRequests ==
    { NotJson(CompareFields) } \cup
    [ json                : {TRUE},
      truck_id            : {Str("abc"), Num(7)},
      warehouse_id        : {Num(1)},
      truck_latitude      : {Absent, Num(BaseLat + 36), Num(BaseLat + 44),
                             Num(BaseLat + 45), Num(BaseLat + 54)},
      truck_longitude     : {Num(BaseLon)},
      warehouse_latitude  : {Num(BaseLat)},
      warehouse_longitude : {Num(BaseLon)} ]

DbOutcomes == {"ok", "error"}          \* "error": pyodbc.Error
\* "unsent": requests.post raises a RequestException; "unavailable": the
\* platform answers for the app, which does not run the handler
NetOutcomes == {"served", "unsent", "unavailable"}

NoReply == Reply(0, "", 0, 0, "")

\* an HTTP exchange: the request, the reply, the storage connections the
\* handler opened, what the store did on them ("none" without a connection),
\* and what the alert write logged
Exchange(handler, caller, req, reply, connects, db, alert) ==
    [handler |-> handler, caller |-> caller, req |-> req,
     reply |-> reply, connects |-> connects,
     store |-> IF connects > 0 THEN db ELSE "none", alert |-> alert]

\* no exchange: the step served no HTTP request
NoExchange == Exchange("none", 0, NotJson({}), NoReply, 0, "ok", "none")

NoHav == [lat1 |-> 0, lon1 |-> 0, lat2 |-> 0, lon2 |-> 0,
          called |-> FALSE, ab |-> 0, ba |-> 0]

Init ==
    /\ env_set \in BOOLEAN
    /\ Warehouses \in WarehouseTables
    /\ TruckLocations = <<>>
    /\ MessageQueue = <<>>
    /\ changes = <<>>
    /\ invs = <<>>
    /\ last = NoExchange
    /\ hist = [ops |-> 0, alert_failed |-> FALSE, direct |-> <<>>]
    /\ hav = NoHav

-----------------------------------------------------------------------------
(* Actions.                                                                *)

InsertEvents(rows) == [k \in 1..Len(rows) |-> [Operation |-> 0, Item |-> rows[k]]]

\* POST /uploadTruckData
UploadTruckData(req, db) ==
    /\ hist.ops < MaxClientOps
    /\ \E out \in {UploadOutcome(req, env_set, db)} :
           /\ TruckLocations' = TruckLocations \o out.rows
           /\ changes' = changes \o InsertEvents(out.rows)
           /\ last' = Exchange("upload", 0, req, out.reply,
                               out.connects, db, "none")
    /\ hist' = [hist EXCEPT !.ops = @ + 1]
    /\ UNCHANGED <<env_set, Warehouses, MessageQueue, invs, hav>>

Remove(seq, k) == SubSeq(seq, 1, k - 1) \o SubSeq(seq, k + 1, Len(seq))

\* a row another client of the database inserts: the row of the reference
\* request
ExternalRow ==
    [TruckID |-> 1, Latitude |-> BaseLat + 44, Longitude |-> BaseLon,
     Timestamp |-> IsoNow]

\* the change feed of TruckLocations also carries what other clients of the
\* database do: an INSERT (0) after row k, an UPDATE (1) or a DELETE (2) of
\* row k
ExternalChange(op, k) ==
    /\ hist.ops < MaxClientOps
    /\ IF op = 0 THEN k = Len(TruckLocations) ELSE k \in DOMAIN TruckLocations
    /\ LET row == CASE op = 0 -> ExternalRow
                     [] op = 1 -> [TruckLocations[k] EXCEPT !.Timestamp = IsoLater]
                     [] OTHER  -> TruckLocations[k]
       IN  /\ TruckLocations' = CASE op = 0 -> Append(TruckLocations, row)
                                   [] op = 1 -> [TruckLocations EXCEPT ![k] = row]
                                   [] OTHER  -> Remove(TruckLocations, k)
           /\ changes' = Append(changes, [Operation |-> op, Item |-> row])
    /\ hist' = [hist EXCEPT !.ops = @ + 1]
    /\ last' = NoExchange
    /\ UNCHANGED <<env_set, Warehouses, MessageQueue, invs, hav>>

\* the SQL trigger delivers the first n pending changes as one batch:
\* calculate_truck_data up to its first comparison call
CalculateTruckData(n, db) ==
    /\ Len(invs) < MaxInvocations
    /\ n \in 1..MaxBatch
    /\ n <= Len(changes)
    /\ invs' = Append(invs, StartInvocation(SubSeq(changes, 1, n), Warehouses,
                                            env_set, db))
    /\ changes' = SubSeq(changes, n + 1, Len(changes))
    /\ last' = NoExchange
    /\ UNCHANGED <<env_set, Warehouses, TruckLocations, MessageQueue, hist, hav>>

\* lines 146-155: what compare_truck_warehouse_location logs
CallLogged(net, reply) ==
    IF net # "unsent" /\ reply.status = 200 THEN "info" ELSE "error"

\* the answer of the platform when the app is unavailable (no answer is
\* looked at when the request raised)
Unavailable ==
    [reply |-> Reply(503, "", 0, 0, ""), rows |-> <<>>, alert |-> "none",
     connects |-> 0]

\* one comparison call of invocation k: the POST fails with a
\* RequestException (unsent), is answered 503 by the platform (unavailable)
\* or is served by compare_locations
CompareTruckWarehouseLocation(k, net, db) ==
    /\ k \in DOMAIN invs
    /\ invs[k].status = "running"
    /\ \E req \in {Payload(invs[k].batch[invs[k].i], invs[k].warehouses[invs[k].j])} :
       \E out \in {IF net = "served" THEN CompareOutcome(req, env_set, db)
                    ELSE Unavailable} :
           /\ invs' = [invs EXCEPT ![k] = AfterCall(invs[k], CallLogged(net, out.reply))]
           /\ IF net = "unsent"
              THEN last' = NoExchange /\ UNCHANGED <<MessageQueue, hist>>
              ELSE /\ MessageQueue' = MessageQueue \o out.rows
                   /\ last' = Exchange(IF net = "served" THEN "compare" ELSE "host",
                                       k, req, out.reply, out.connects, db,
                                       out.alert)
                   /\ hist' = [hist EXCEPT !.alert_failed =
                                   @ \/ out.alert \in {"error", "raised"}]
    /\ UNCHANGED <<env_set, Warehouses, TruckLocations, changes, hav>>

\* POST /compareLocations by any other client (the route is anonymous)
CompareLocations(req, db) ==
    /\ hist.ops < MaxClientOps
    /\ \E out \in {CompareOutcome(req, env_set, db)} :
           /\ MessageQueue' = MessageQueue \o out.rows
           /\ last' = Exchange("compare", 0, req, out.reply,
                               out.connects, db, out.alert)
           /\ hist' = [hist EXCEPT !.ops = @ + 1, !.direct = @ \o out.rows]
    /\ UNCHANGED <<env_set, Warehouses, TruckLocations, changes, invs, hav>>

Next ==
    \/ \E req \in UploadRequests, db \in DbOutcomes : UploadTruckData(req, db)
    \/ \E op \in {0, 1, 2}, k \in 0..MaxClientOps : ExternalChange(op, k)
    \/ \E n \in 1..MaxBatch, db \in DbOutcomes : CalculateTruckData(n, db)
    \/ \E k \in 1..MaxInvocations, net \in NetOutcomes, db \in DbOutcomes :
           CompareTruckWarehouseLocation(k, net, db)
    \/ \E req \in DirectRequests, db \in DbOutcomes : CompareLocations(req, db)

Spec == Init /\ [][Next]_vars

-----------------------------------------------------------------------------
(* haversine on its own: two points drawn within 0.1 degree of the         *)
(* warehouse, the function applied to them in both orders.                 *)

HavLatitudes == {BaseLat + d : d \in {0, 1, 44, 1000}}
HavLongitudes == {BaseLon + d : d \in {0, 60, 1000}}

InitHaversine ==
    /\ env_set = TRUE
    /\ Warehouses = <<>>
    /\ TruckLocations = <<>>
    /\ MessageQueue = <<>>
    /\ changes = <<>>
    /\ invs = <<>>
    /\ last = NoExchange
    /\ hist = [ops |-> 0, alert_failed |-> FALSE, direct |-> <<>>]
    /\ hav \in [lat1 : HavLatitudes, lon1 : HavLongitudes,
                 lat2 : HavLatitudes, lon2 : HavLongitudes,
                 called : {FALSE}, ab : {0}, ba : {0}]

HaversineCall ==
    /\ ~hav.called
    /\ hav' = [hav EXCEPT !.called = TRUE,
                          !.ab = Haversine(hav.lat1, hav.lon1, hav.lat2, hav.lon2),
                          !.ba = Haversine(hav.lat2, hav.lon2, hav.lat1, hav.lon1)]
    /\ UNCHANGED <<env_set, Warehouses, TruckLocations, MessageQueue, changes,
                   invs, last, hist>>

SpecHaversine == InitHaversine /\ [][HaversineCall]_vars

-----------------------------------------------------------------------------
(* Properties.                                                             *)

\* this step served an HTTP exchange of handler h; last' holds it
Served(h) == last'.handler = h

Last(seq) == seq[Len(seq)]

Count(seq, x) == Cardinality({k \in DOMAIN seq : seq[k] = x})

Range(seq) == {seq[k] : k \in DOMAIN seq}

IsPrefix(s, t) == Len(s) <= Len(t) /\ SubSeq(t, 1, Len(s)) = s

\* the six fields of a comparison request parse
CompareParses(req) == req.json /\ \A f \in CompareFields : req[f].t = "num"

DistanceOf(req) ==
    Haversine(req.truck_latitude.n, req.truck_longitude.n,
              req.warehouse_latitude.n, req.warehouse_longitude.n)

AlertOf(req) == AlertRow(req.truck_id.n, req.warehouse_id.n, DistanceOf(req))

\* C1: compare_locations appends a MessageQueue row if and only if the
\* computed distance is <= 0.5 km: a request whose six fields parse and whose
\* alert write does not fail appends exactly the row (truck_id, warehouse_id,
\* distance) when the distance is <= 0.5 and nothing when it is greater; and
\* no comparison appends a row unless its distance is <= 0.5.
C1_AlertIffWithinThreshold ==
    [][Served("compare") =>
         \A req \in {last'.req} :
             IF ~CompareParses(req)
             THEN MessageQueue' = MessageQueue
             ELSE \A distance \in {DistanceOf(req)} :
                    /\ (distance <= Threshold /\ last'.alert \notin {"error", "raised"}) =>
                           MessageQueue' = Append(MessageQueue,
                               AlertRow(req.truck_id.n, req.warehouse_id.n, distance))
                    /\ distance > Threshold => MessageQueue' = MessageQueue
                    /\ MessageQueue' # MessageQueue => distance <= Threshold]_vars

\* a comparison exactly at the threshold has written its row
C1_Witness ==
    /\ last.handler = "compare"
    /\ CompareParses(last.req)
    /\ last.alert = "ok"
    /\ DistanceOf(last.req) = Threshold
    /\ MessageQueue # <<>>
    /\ Last(MessageQueue) = AlertOf(last.req)

\* the comparisons a batch asks for, in batch order: every INSERT event with
\* every warehouse
RECURSIVE ExpectedCalls(_, _)
ExpectedCalls(batch, warehouses) ==
    IF batch = <<>> THEN <<>>
    ELSE (IF Head(batch).Operation = 0
          THEN [j \in DOMAIN warehouses |-> Payload(Head(batch), warehouses[j])]
          ELSE <<>>)
         \o ExpectedCalls(Tail(batch), warehouses)

\* the alerts of invocation k that equal row: its (INSERT event, warehouse)
\* pairs within the threshold
ExpectedCount(k, row) ==
    Cardinality({n \in DOMAIN ExpectedCalls(invs[k].batch, invs[k].warehouses) :
                   LET req == ExpectedCalls(invs[k].batch, invs[k].warehouses)[n]
                   IN  DistanceOf(req) <= Threshold /\ AlertOf(req) = row})

RECURSIVE ExpectedCountUpTo(_, _)
ExpectedCountUpTo(k, row) ==
    IF k = 0 THEN 0 ELSE ExpectedCount(k, row) + ExpectedCountUpTo(k - 1, row)

ExpectedRows ==
    UNION {{AlertOf(req) : req \in Range(ExpectedCalls(invs[k].batch, invs[k].warehouses))} :
               k \in DOMAIN invs}

AllSucceeded ==
    /\ ~hist.alert_failed
    /\ \A k \in DOMAIN invs : invs[k].status # "running" /\ invs[k].errors = 0

\* C2: once every invocation has ended, and every comparison call and alert
\* write of theirs succeeded, MessageQueue holds, beside the rows other
\* clients' comparisons wrote, exactly one row per (INSERT event, warehouse)
\* pair within 0.5 km, counted with multiplicity.
C2_OneAlertPerPair ==
    AllSucceeded =>
        \A row \in Range(MessageQueue) \cup ExpectedRows :
            Count(MessageQueue, row) =
                ExpectedCountUpTo(Len(invs), row) + Count(hist.direct, row)

\* two invocations, one insert each of the same truck at the same place
\* within 0.5 km of both warehouses, interleaved: both compared with the
\* first warehouse before either compared with the second
C2_Witness ==
    /\ AllSucceeded
    /\ Len(invs) = 2
    /\ Len(invs[1].batch) = 1 /\ Len(invs[2].batch) = 1
    /\ Len(MessageQueue) = 4
    /\ MessageQueue[1] = MessageQueue[2]
    /\ MessageQueue[3] = MessageQueue[4]
    /\ MessageQueue[1].WarehouseID = 1
    /\ MessageQueue[3].WarehouseID = 2

\* C3: an invocation issues exactly one comparison call per (event,
\* warehouse) pair whose event is an INSERT, in batch order, and none for
\* another event: its calls are at every moment a prefix of that list, and
\* the whole list once it is done.
C3_OneCallPerInsertPair ==
    \A k \in DOMAIN invs :
        LET expected == ExpectedCalls(invs[k].batch, invs[k].warehouses)
        IN  /\ IsPrefix(invs[k].calls, expected)
            /\ invs[k].status = "done" => invs[k].calls = expected

\* a batch of one INSERT and one other event against two warehouses is done
\* after two calls
C3_Witness ==
    \E k \in DOMAIN invs :
        /\ invs[k].status = "done"
        /\ Len(invs[k].batch) = 2
        /\ \E e \in DOMAIN invs[k].batch : invs[k].batch[e].Operation = 0
        /\ \E e \in DOMAIN invs[k].batch : invs[k].batch[e].Operation # 0
        /\ Len(invs[k].warehouses) = 2
        /\ Len(invs[k].calls) = 2

\* C4: compare_locations answers 200, naming the truck and the warehouse,
\* every request whose six fields parse: whatever the distance and however
\* the alert write fails.
C4_AlwaysAcknowledged ==
    (last.handler = "compare" /\ CompareParses(last.req)) =>
        /\ last.reply.status = 200
        /\ last.reply.truck_id = last.req.truck_id.n
        /\ last.reply.warehouse_id = last.req.warehouse_id.n

\* the four fields of an upload parse and none is zero or empty
UploadComplete(req) ==
    /\ req.json
    /\ \A f \in {"truck_id", "latitude", "longitude"} :
           req[f].t = "num" /\ req[f].n # 0
    /\ req.timestamp.t = "str" /\ req.timestamp.s \in IsoStrings

RowOf(req) ==
    [TruckID |-> req.truck_id.n, Latitude |-> req.latitude.n,
     Longitude |-> req.longitude.n, Timestamp |-> req.timestamp.s]

UploadDefective(req) ==
    \/ ~req.json
    \/ \E f \in {"truck_id", "latitude", "longitude"} : req[f].t \notin {"num", "half"}
    \/ ~(req.timestamp.t = "str" /\ req.timestamp.s \in IsoStrings)

\* the payload of the simulation script: no timestamp
SimulationPayload == [UploadReference EXCEPT !.timestamp = Absent]

UploadHasZero(req) ==
    /\ req.json
    /\ \A f \in {"truck_id", "latitude", "longitude"} : req[f].t = "num"
    /\ req.timestamp.t = "str" /\ req.timestamp.s \in IsoStrings
    /\ \E f \in {"truck_id", "latitude", "longitude"} : req[f].n = 0

MissingParameters == "Missing one or more required parameters."

C8_HaversineSymmetric ==
    hav.called =>
        /\ hav.ab = hav.ba
        /\ (hav.lat1 = hav.lat2 /\ hav.lon1 = hav.lon2) => hav.ab = 0

\* two points that differ in latitude and in longitude, a positive distance
C8_Witness ==
    /\ hav.called
    /\ hav.lat1 # hav.lat2
    /\ hav.lon1 # hav.lon2
    /\ hav.ab > 0

\* C9: a comparison call that fails (the request raises, or the response is
\* not 200) is logged and swallowed: the invocation goes on with the next
\* pair, or is done after the last one; the failed pair is not tried again,
\* and an invocation that is done has called every pair exactly once
\* whatever failed.
C9_FailedCallIsSwallowed ==
    /\ [](\A k \in DOMAIN invs :
             (invs[k].errors > 0 /\ invs[k].status # "running") =>
                 /\ invs[k].status = "done"
                 /\ invs[k].calls = ExpectedCalls(invs[k].batch, invs[k].warehouses))
    /\ [][\A k \in DOMAIN invs :
            (Len(invs'[k].calls) = Len(invs[k].calls) + 1 /\ invs'[k].log = "error") =>
                LET expected == ExpectedCalls(invs[k].batch, invs[k].warehouses)
                    n == Len(invs'[k].calls)
                    after == invs'[k]
                IN  /\ after.batch = invs[k].batch
                    /\ after.warehouses = invs[k].warehouses
                    /\ after.calls = Append(invs[k].calls, expected[n])
                    /\ after.status = IF n = Len(expected) THEN "done" ELSE "running"
                    /\ n < Len(expected) =>
                           Payload(after.batch[after.i], after.warehouses[after.j])
                               = expected[n + 1]]_vars

\* an invocation finished all four pairs of its batch although one call
\* before the last one failed
C9_Witness ==
    \E k \in DOMAIN invs :
        /\ invs[k].status = "done"
        /\ invs[k].errors = 1
        /\ invs[k].log = "info"
        /\ Len(invs[k].calls) = 4
        /\ invs[k].calls = ExpectedCalls(invs[k].batch, invs[k].warehouses)

\* C10: an invocation whose warehouse read fails, or returns no row, makes
\* no comparison call and ends normally.
C10_FetchFailureIsNoOp ==
    \A k \in DOMAIN invs :
        (invs[k].fetch # "ok" \/ invs[k].warehouses = <<>>) =>
            /\ invs[k].calls = <<>>
            /\ invs[k].status = "done"

\* a field of the upload is absent or null, or its timestamp is the empty
\* string
UploadLacksField(req) ==
    /\ req.json
    /\ \/ \E f \in UploadFields : IsNone(req[f])
       \/ req.timestamp = Str("")

\* all four fields are present and parse, and the parsed truck_id, latitude
\* or longitude is zero
UploadParsesToZero(req) ==
    /\ req.json
    /\ \A f \in UploadFields : ~IsNone(req[f])
    /\ ParseUpload(req).err = ""
    /\ \/ ParseUpload(req).truck_id = 0
       \/ ParseUpload(req).latitude = 0
       \/ ParseUpload(req).longitude = 0

====
